---- MODULE Spec2Model ----
(***************************************************************************)
(* Row validation engine of EtlProject: the schema AdPerformanceRecord     *)
(* (validator.py), the error formatter format_pydantic_error and the batch *)
(* runner validate_data, in its two copies app.py and validate_app.py.     *)
(*                                                                         *)
(* The schema is a pydantic model; the diagnostics the formatter matches   *)
(* ("field required", "value is not a valid float", ...) are those of      *)
(* pydantic 1.x, so the validators below follow pydantic 1.x: lax          *)
(* coercion, one error per failing Union member, errors reported in field  *)
(* declaration order.                                                      *)
(*                                                                         *)
(* Cell values are the ones a pandas table holds: text, whole numbers,     *)
(* decimal numbers (kept in tenths) and NaN, the marker of an empty cell.  *)
(***************************************************************************)
EXTENDS Integers, Sequences, FiniteSets, TLC

VARIABLES
    impl,               \* the copy that runs: "app" or "validate_app"
    cols, index, df,    \* the input table: its columns, its index, its rows
    pos,                \* number of rows the loop has gone through
    pc,                 \* "loop", "returned" or "raised"
    exc,                \* the exception that left validate_data, if any
    record_dict,        \* the local variable record_dict
    valid_records,
    error_report_list,
    outcome,            \* history: the collection each row went to
    error_detail,       \* the argument of a call of format_pydantic_error
    sentence            \* what that call returned

\* The variables of a call of format_pydantic_error on its own.
fmt == <<error_detail, sentence>>

vars == <<impl, cols, index, df, pos, pc, exc, record_dict, valid_records, error_report_list,
          outcome, error_detail, sentence>>

(***************************************************************************)
(* Bounds of the model.                                                    *)
(***************************************************************************)
\* Largest number of rows of an input table.
MaxRows == 2
\* Offset of the index labels of a table whose index does not start at 0
\* (a filtered or sliced table).
Shift == 3

(***************************************************************************)
(* Cell values.                                                            *)
(***************************************************************************)
Str(s) == [t |-> "str", n |-> 0, s |-> s]
Int_(n) == [t |-> "int", n |-> n, s |-> ""]
\* A decimal number, n in tenths: Flt(25) is 2.5.
Flt(n) == [t |-> "float", n |-> n, s |-> ""]
\* float('nan'): what pandas stores for an empty cell.
NaN == [t |-> "nan", n |-> 0, s |-> ""]
\* Python None: the default of an optional field.
None == [t |-> "none", n |-> 0, s |-> ""]

\* The result of a conversion: a value, or the failure the validator raises.
Ok(v) == [ok |-> TRUE, v |-> v]
Fail == [ok |-> FALSE, v |-> None]

(***************************************************************************)
(* Python's int(str) and float(str) on the text cells of the model, and    *)
(* str(number) on its numeric cells.                                       *)
(***************************************************************************)
\* int("12") = 12; int("2.5") and int("abc") raise ValueError.
ParseInt(s) ==
    CASE s = "12" -> Ok(Int_(12))
      [] s = "-5" -> Ok(Int_(-5))
      [] OTHER -> Fail

\* float("12") = 12.0; float("2.5") = 2.5; float("abc") raises ValueError.
ParseFloat(s) ==
    CASE s = "12" -> Ok(Flt(120))
      [] s = "-5" -> Ok(Flt(-50))
      [] s = "2.5" -> Ok(Flt(25))
      [] OTHER -> Fail

\* int(x) of a decimal number truncates toward zero.
Trunc(n) == IF n >= 0 THEN n \div 10 ELSE -((-n) \div 10)

\* str(x) of a number.
StrOfNumber(v) ==
    CASE v.t = "nan" -> "nan"
      [] v.t = "int" /\ v.n = 7 -> "7"
      [] v.t = "int" /\ v.n = 0 -> "0"
      [] v.t = "int" /\ v.n = -5 -> "-5"
      [] v.t = "float" /\ v.n = 25 -> "2.5"
      [] v.t = "float" /\ v.n = 1005 -> "100.5"

(***************************************************************************)
(* pydantic 1.x validators of the declared types.                          *)
(***************************************************************************)
\* int_validator: an int as is, anything else through int(v).
int_validator(v) ==
    CASE v.t = "int" -> Ok(v)
      [] v.t = "float" -> Ok(Int_(Trunc(v.n)))
      [] v.t = "str" -> ParseInt(v.s)
      [] OTHER -> Fail

\* float_validator: a float as is (NaN included), anything else through float(v).
float_validator(v) ==
    CASE v.t \in {"float", "nan"} -> Ok(v)
      [] v.t = "int" -> Ok(Flt(10 * v.n))
      [] v.t = "str" -> ParseFloat(v.s)
      [] OTHER -> Fail

\* str_validator: a str as is, a number through str(v).
str_validator(v) ==
    CASE v.t = "str" -> Ok(v)
      [] v.t \in {"int", "float", "nan"} -> Ok(Str(StrOfNumber(v)))
      [] OTHER -> Fail

\* gt in place of ge: zero refused.
GeZero_strict(v) == v.t = "float" /\ v.n > 0

\* number_size_validator for ge: NaN >= 0.0 is False in Python.
GeZero(v) == v.t = "float" /\ v.n >= 0

(***************************************************************************)
(* The schema: AdPerformanceRecord, in declaration order.                  *)
(***************************************************************************)
FieldDef(name, required, type) == [name |-> name, required |-> required, type |-> type]

\* type: "int", "str", "float_ge" (float with ge=0.0), "int_or_float"
\* (Union[int, float]).
AdPerformanceRecord ==
    << FieldDef("Organizador", TRUE, "int"),
       FieldDef("Ano_Mes", TRUE, "str"),
       FieldDef("Dia_da_Semana", TRUE, "str"),
       FieldDef("Tipo_Dia", TRUE, "str"),
       FieldDef("Objetivo", TRUE, "str"),
       FieldDef("Date", TRUE, "str"),
       FieldDef("AdSet_name", TRUE, "str"),
       FieldDef("Amount_spent", TRUE, "float_ge"),
       FieldDef("Link_clicks", FALSE, "int_or_float"),
       FieldDef("Impressions", FALSE, "int_or_float"),
       FieldDef("Conversions", FALSE, "int_or_float"),
       FieldDef("Segmentação", FALSE, "str"),
       FieldDef("Tipo_de_Anúncio", TRUE, "str"),
       FieldDef("Fase", TRUE, "str") >>

NumFields == Len(AdPerformanceRecord)

FieldNames == {AdPerformanceRecord[i].name : i \in 1..NumFields}

(***************************************************************************)
(* The diagnostics of pydantic 1.x (the "msg" and "type" of e.errors()).   *)
(***************************************************************************)
MsgMissing == "field required"
MsgInteger == "value is not a valid integer"
MsgFloat == "value is not a valid float"
MsgNotGe == "ensure this value is greater than or equal to 0.0"

ErrorDetail(field, msg, type) == [loc |-> field, msg |-> msg, type |-> type]

ErrMissing(f) == ErrorDetail(f, MsgMissing, "value_error.missing")
ErrInteger(f) == ErrorDetail(f, MsgInteger, "type_error.integer")
ErrFloat(f) == ErrorDetail(f, MsgFloat, "type_error.float")
ErrNotGe(f) == ErrorDetail(f, MsgNotGe, "value_error.number.not_ge")

(***************************************************************************)
(* Validation of one field of a row mapping d (a function from the row's   *)
(* column names to cells): the value the model would hold and the errors   *)
(* the field contributes.                                                  *)
(***************************************************************************)
FieldResult(v, errs) == [v |-> v, errs |-> errs]

\* ValidateValue letting a Union value that no member accepts pass as None.
ValidateValue_lenientUnion(fd, v) ==
    CASE fd.type = "int" ->
           LET r == int_validator(v)
           IN IF r.ok THEN FieldResult(r.v, <<>>)
              ELSE FieldResult(None, <<ErrInteger(fd.name)>>)
      [] fd.type = "str" -> FieldResult(str_validator(v).v, <<>>)
      [] fd.type = "float_ge" ->
           LET r == float_validator(v)
           IN IF ~r.ok THEN FieldResult(None, <<ErrFloat(fd.name)>>)
              ELSE IF ~GeZero(r.v) THEN FieldResult(None, <<ErrNotGe(fd.name)>>)
              ELSE FieldResult(r.v, <<>>)
      [] fd.type = "int_or_float" ->
           LET ri == int_validator(v)
               rf == float_validator(v)
           IN IF ri.ok THEN FieldResult(ri.v, <<>>)
              ELSE IF rf.ok THEN FieldResult(rf.v, <<>>)
              ELSE FieldResult(None, <<>>)

\* A value given for the field, by declared type.
ValidateValue(fd, v) ==
    CASE fd.type = "int" ->
           LET r == int_validator(v)
           IN IF r.ok THEN FieldResult(r.v, <<>>)
              ELSE FieldResult(None, <<ErrInteger(fd.name)>>)
      [] fd.type = "str" ->
           \* every cell of the model is text or a number: str_validator succeeds
           FieldResult(str_validator(v).v, <<>>)
      [] fd.type = "float_ge" ->
           LET r == float_validator(v)
           IN IF ~r.ok THEN FieldResult(None, <<ErrFloat(fd.name)>>)
              ELSE IF ~GeZero(r.v) THEN FieldResult(None, <<ErrNotGe(fd.name)>>)
              ELSE FieldResult(r.v, <<>>)
      [] fd.type = "int_or_float" ->
           \* Union[int, float]: the members in order, the first that accepts
           \* wins; when none does, one error per member.
           LET ri == int_validator(v)
               rf == float_validator(v)
           IN IF ri.ok THEN FieldResult(ri.v, <<>>)
              ELSE IF rf.ok THEN FieldResult(rf.v, <<>>)
              ELSE FieldResult(None, <<ErrInteger(fd.name), ErrFloat(fd.name)>>)

\* ValidateField with every field required.
ValidateField_allRequired(fd, d) ==
    IF fd.name \in DOMAIN d THEN ValidateValue(fd, d[fd.name])
    ELSE FieldResult(None, <<ErrMissing(fd.name)>>)

\* A field of the row mapping: a missing required field is an error, a
\* missing optional one takes its default None.
ValidateField(fd, d) ==
    IF fd.name \in DOMAIN d THEN ValidateValue(fd, d[fd.name])
    ELSE IF fd.required THEN FieldResult(None, <<ErrMissing(fd.name)>>)
    ELSE FieldResult(None, <<>>)

\* e.errors(): the errors of the fields i..NumFields, in declaration order.
RECURSIVE ErrorsFrom(_, _)
ErrorsFrom(i, d) ==
    IF i > NumFields THEN <<>>
    ELSE ValidateField(AdPerformanceRecord[i], d).errs \o ErrorsFrom(i + 1, d)

\* e.errors() of AdPerformanceRecord(**d); empty when the row validates.
Errors(d) == ErrorsFrom(1, d)

\* The fields of the model instance AdPerformanceRecord(**d) of a row that
\* validates: the declared fields only (Config.extra = "ignore"), coerced.
FieldIndex(name) == CHOOSE i \in 1..NumFields : AdPerformanceRecord[i].name = name

ValidatedRecord(d) ==
    [name \in FieldNames |-> ValidateField(AdPerformanceRecord[FieldIndex(name)], d).v]

(***************************************************************************)
(* Text.  A Python str is atomic here; Chars spells the texts the          *)
(* formatter tests, so that "x in msg" is a real substring search.         *)
(***************************************************************************)
Chars(s) ==
    CASE s = "field required" ->
           <<"f", "i", "e", "l", "d", " ", "r", "e", "q", "u", "i", "r", "e", "d">>
      [] s = "value is not a valid integer" ->
           <<"v", "a", "l", "u", "e", " ", "i", "s", " ", "n", "o", "t", " ", "a", " ", "v", "a", "l", "i", "d", " ", "i", "n", "t", "e", "g", "e", "r">>
      [] s = "value is not a valid float" ->
           <<"v", "a", "l", "u", "e", " ", "i", "s", " ", "n", "o", "t", " ", "a", " ", "v", "a", "l", "i", "d", " ", "f", "l", "o", "a", "t">>
      [] s = "ensure this value is greater than or equal to 0.0" ->
           <<"e", "n", "s", "u", "r", "e", " ", "t", "h", "i", "s", " ", "v", "a", "l", "u", "e", " ", "i", "s", " ", "g", "r", "e", "a", "t", "e", "r", " ", "t", "h", "a", "n", " ", "o", "r", " ", "e", "q", "u", "a", "l", " ", "t", "o", " ", "0", ".", "0">>
      [] s = "float" ->
           <<"f", "l", "o", "a", "t">>
      [] s = "int" ->
           <<"i", "n", "t">>
      [] s = "not a valid float" ->
           <<"n", "o", "t", " ", "a", " ", "v", "a", "l", "i", "d", " ", "f", "l", "o", "a", "t">>
      [] s = "is not a valid float" ->
           <<"i", "s", " ", "n", "o", "t", " ", "a", " ", "v", "a", "l", "i", "d", " ", "f", "l", "o", "a", "t">>
      [] s = "not a valid integer" ->
           <<"n", "o", "t", " ", "a", " ", "v", "a", "l", "i", "d", " ", "i", "n", "t", "e", "g", "e", "r">>
      [] s = "is not a valid integer" ->
           <<"i", "s", " ", "n", "o", "t", " ", "a", " ", "v", "a", "l", "i", "d", " ", "i", "n", "t", "e", "g", "e", "r">>
      [] s = "none is not an allowed value" ->
           <<"n", "o", "n", "e", " ", "i", "s", " ", "n", "o", "t", " ", "a", "n", " ", "a", "l", "l", "o", "w", "e", "d", " ", "v", "a", "l", "u", "e">>
      [] s = "str type expected" ->
           <<"s", "t", "r", " ", "t", "y", "p", "e", " ", "e", "x", "p", "e", "c", "t", "e", "d">>
      [] s = "Data Inválida" ->
           <<"D", "a", "t", "a", " ", "I", "n", "v", "á", "l", "i", "d", "a">>
      [] s = "Erro de validação genérico." ->
           <<"E", "r", "r", "o", " ", "d", "e", " ", "v", "a", "l", "i", "d", "a", "ç", "ã", "o", " ", "g", "e", "n", "é", "r", "i", "c", "o", ".">>

\* needle in hay, both spelled out.
IsInfix(needle, hay) ==
    \E k \in 0..(Len(hay) - Len(needle)) :
        \A j \in 1..Len(needle) : hay[k + j] = needle[j]

\* Python's "sub in msg".
In(sub, msg) == IsInfix(Chars(sub), Chars(msg))

\* str.capitalize(): first character upper case, the rest lower case.
Capitalize(msg) ==
    CASE msg = "field required" ->
           "Field required"
      [] msg = "value is not a valid integer" ->
           "Value is not a valid integer"
      [] msg = "value is not a valid float" ->
           "Value is not a valid float"
      [] msg = "ensure this value is greater than or equal to 0.0" ->
           "Ensure this value is greater than or equal to 0.0"
      [] msg = "none is not an allowed value" ->
           "None is not an allowed value"
      [] msg = "str type expected" ->
           "Str type expected"
      [] msg = "Data Inválida" ->
           "Data inválida"
      [] msg = "Erro de validação genérico." ->
           "Erro de validação genérico."

(***************************************************************************)
(* format_pydantic_error.  A sentence is kept as the pieces of its         *)
(* f-string: literal text, the field name, literal text, inserted text,    *)
(* literal text.                                                           *)
(***************************************************************************)
Sentence(pre, field, mid, text, post) ==
    [pre |-> pre, field |-> field, mid |-> mid, text |-> text, post |-> post]

MissingSentence(field) == Sentence("O campo '", field, "' está faltando ou vazio.", "", "")
DecimalSentence(field) == Sentence("O campo '", field, "' deve ser um número decimal (ex: 100.50).", "", "")
NumberSentence(field) == Sentence("O campo '", field, "' deve ser um número (ex: 100.50).", "", "")
WholeSentence(field) == Sentence("O campo '", field, "' deve ser um número inteiro (ex: 100).", "", "")
GenericSentence(field, msg) == Sentence("Campo '", field, "': ", Capitalize(msg), ".")

\* A key the dict does not hold, and dict.get(key, default).
Absent == "<absent>"
Get(v, default) == IF v = Absent THEN default ELSE v

DefaultLoc == "Campo Desconhecido"
DefaultMsg == "Erro de validação genérico."

\* format_pydantic_error of validate_app.py without its integer branch.
format_pydantic_error_noInteger(detail) ==
    LET field == Get(detail.loc, DefaultLoc)
        msg == Get(detail.msg, DefaultMsg)
    IN IF In("field required", msg) THEN MissingSentence(field)
       ELSE IF In("float", msg)
               /\ (In("not a valid float", msg) \/ In("value is not a valid float", msg))
            THEN DecimalSentence(field)
       ELSE GenericSentence(field, msg)

\* validate_app.py
format_pydantic_error_validate_app(detail) ==
    LET field == Get(detail.loc, DefaultLoc)
        msg == Get(detail.msg, DefaultMsg)
    IN IF In("field required", msg) THEN MissingSentence(field)
       ELSE IF In("float", msg)
               /\ (In("not a valid float", msg) \/ In("value is not a valid float", msg))
            THEN DecimalSentence(field)
       ELSE IF In("int", msg) /\ In("not a valid integer", msg) THEN WholeSentence(field)
       ELSE GenericSentence(field, msg)

\* app.py
format_pydantic_error_app(detail) ==
    LET field == Get(detail.loc, DefaultLoc)
        msg == Get(detail.msg, DefaultMsg)
    IN IF In("field required", msg) THEN MissingSentence(field)
       ELSE IF In("is not a valid float", msg) \/ In("value is not a valid float", msg)
            THEN NumberSentence(field)
       ELSE IF In("int", msg) /\ In("is not a valid integer", msg) THEN WholeSentence(field)
       ELSE GenericSentence(field, msg)

\* The formatter of the copy m ("app" or "validate_app").
format_pydantic_error(m, detail) ==
    IF m = "app" THEN format_pydantic_error_app(detail)
    ELSE format_pydantic_error_validate_app(detail)

\* [format_pydantic_error(error) for error in e.errors()]
RECURSIVE FormattedFrom(_, _, _)
FormattedFrom(m, errs, i) ==
    IF i > Len(errs) THEN <<>>
    ELSE <<format_pydantic_error(m, errs[i])>> \o FormattedFrom(m, errs, i + 1)

formatted_errors(m, errs) == FormattedFrom(m, errs, 1)

(***************************************************************************)
(* Input tables.  A table has one set of columns, shared by its rows, an   *)
(* index and up to MaxRows rows.  A row is its cells and, for a row that   *)
(* cannot be processed, the statement of the try body that raises a        *)
(* non-validation exception: "to_dict", the call row.to_dict(), or "ctor", *)
(* the construction of AdPerformanceRecord from record_dict.               *)
(***************************************************************************)
ExtraColumn == "Extra"

\* A conforming row, with a column the schema does not declare.
BaseCells ==
    [c \in FieldNames \cup {ExtraColumn} |->
        CASE c = "Organizador" -> Int_(7)
          [] c = "Ano_Mes" -> Str("2024 | Março")
          [] c = "Dia_da_Semana" -> Str("Sexta-Feira")
          [] c = "Tipo_Dia" -> Str("Dia útil")
          [] c = "Objetivo" -> Str("Leads")
          [] c = "Date" -> Str("2024-03-01")
          [] c = "AdSet_name" -> Str("X")
          [] c = "Amount_spent" -> Flt(1005)
          [] c = "Link_clicks" -> Int_(3)
          [] c = "Impressions" -> Int_(12)
          [] c = "Conversions" -> Int_(0)
          [] c = "Segmentação" -> Str("Aberto")
          [] c = "Tipo_de_Anúncio" -> Str("Video")
          [] c = "Fase" -> Str("F1")
          [] c = ExtraColumn -> Str("note")]

\* The cells a row may hold instead of the conforming one.
Deviations ==
    { <<"Organizador", Str("abc")>>, <<"Organizador", Str("12")>>,
      <<"Date", NaN>>,
      <<"AdSet_name", Str("Y")>>,
      <<"Amount_spent", Int_(-5)>>, <<"Amount_spent", Int_(0)>>,
      <<"Amount_spent", Str("abc")>>,
      <<"Link_clicks", Str("abc")>>,
      <<"Link_clicks", NaN>> }

AllCells == {BaseCells} \cup {[BaseCells EXCEPT ![d[1]] = d[2]] : d \in Deviations}

Restrict(f, S) == [c \in S |-> f[c]]

Row(cells, fault) == [cells |-> cells, fault |-> fault]

\* The rows of a table with the columns C: every row that reads, and the
\* conforming row failing at either statement.
Rows(C) ==
    {Row(Restrict(f, C), "none") : f \in AllCells}
    \cup {Row(Restrict(BaseCells, C), flt) : flt \in {"to_dict", "ctor"}}

\* The schema's columns and one more, or the schema's columns with one of
\* these columns absent.
ColumnSets ==
    {FieldNames \cup {ExtraColumn}}
    \cup {FieldNames \ {c} : c \in {"Date", "AdSet_name", "Link_clicks"}}

\* The index of a table: "range" is the default 0..n-1 of read_csv,
\* "shifted" the integer labels Shift..Shift+n-1, "text" labels that are
\* not numbers.
IndexKinds == {"range", "shifted", "text"}

RECURSIVE Tables(_, _)
Tables(C, n) ==
    IF n = 0 THEN {<<>>}
    ELSE {Append(t, r) : t \in Tables(C, n - 1), r \in Rows(C)}

Impls == {"app", "validate_app"}

(***************************************************************************)
(* validate_data.                                                          *)
(***************************************************************************)
\* A local variable not yet assigned.
Unbound == [bound |-> FALSE, d |-> [c \in {} |-> None]]
Bound(d) == [bound |-> TRUE, d |-> d]

\* The index label of the row at zero-based position i, for integer indexes.
Label(kind, i) == IF kind = "shifted" THEN Shift + i ELSE i

\* index + 1: the header line forgotten.
Linha_CSV_noHeader(kind, i) == Label(kind, i) + 1

\* index + 2
Linha_CSV(kind, i) == Label(kind, i) + 2

\* d.get('AdSet_name', 'N/A')
AdSet_Nome_Aprox(d) == IF "AdSet_name" \in DOMAIN d THEN d["AdSet_name"] ELSE Str("N/A")

Entry(linha, nome, primeiro, total) ==
    [Linha_CSV |-> linha, AdSet_Nome_Aprox |-> nome,
     Primeiro_Erro_Detectado |-> primeiro, Total_Erros_Nesta_Linha |-> total]

\* ValidationEntry reporting the last error of the row instead of the first.
ValidationEntry_lastError(m, kind, i, d) ==
    LET fe == formatted_errors(m, Errors(d))
    IN Entry(Linha_CSV(kind, i), AdSet_Nome_Aprox(d), fe[Len(fe)], Len(fe))

\* The entry of the except ValidationError handler.
ValidationEntry(m, kind, i, d) ==
    LET fe == formatted_errors(m, Errors(d))
    IN Entry(Linha_CSV(kind, i), AdSet_Nome_Aprox(d), fe[1], Len(fe))

\* str(e) of the non-validation exception.
FaultText == "<str(e)>"

\* The entry of the except Exception handler; d is the mapping the label is
\* read from.
FaultEntry(kind, i, d) ==
    Entry(Linha_CSV(kind, i), AdSet_Nome_Aprox(d),
          Sentence("Erro Geral: ", "", "", FaultText, ""), 1)

\* No call of format_pydantic_error on its own is under way.
NoDetail == ErrorDetail(Absent, Absent, Absent)
NoSentence == Sentence("", "", "", "", "")

Init ==
    /\ impl \in Impls
    /\ cols \in ColumnSets
    /\ index \in IndexKinds
    /\ df \in UNION {Tables(cols, n) : n \in 0..MaxRows}
    /\ pos = 0
    /\ pc = "loop"
    /\ exc = ""
    /\ record_dict = Unbound
    /\ valid_records = <<>>
    /\ error_report_list = <<>>
    /\ outcome = <<>>
    /\ error_detail = NoDetail
    /\ sentence = NoSentence

\* The row the loop is at.
row == df[pos + 1]

InLoop == pc = "loop" /\ pos < Len(df)

\* record_dict after the try body: assigned unless row.to_dict() raised.
AfterToDict == IF row.fault = "to_dict" THEN record_dict ELSE Bound(row.cells)

\* AppendValid without the append: the row is validated and forgotten.
AppendValid_forgets ==
    /\ InLoop
    /\ row.fault = "none"
    /\ Errors(row.cells) = <<>>
    /\ record_dict' = Bound(row.cells)
    /\ pos' = pos + 1
    /\ outcome' = Append(outcome, "valid_records")
    /\ UNCHANGED <<impl, cols, index, df, pc, exc, valid_records, error_report_list>>
    /\ UNCHANGED fmt

\* AppendValid appending the validated model's fields instead of the row.
AppendValid_validated ==
    /\ InLoop
    /\ row.fault = "none"
    /\ Errors(row.cells) = <<>>
    /\ record_dict' = Bound(row.cells)
    /\ valid_records' = Append(valid_records, ValidatedRecord(record_dict'.d))
    /\ pos' = pos + 1
    /\ outcome' = Append(outcome, "valid_records")
    /\ UNCHANGED <<impl, cols, index, df, pc, exc, error_report_list>>
    /\ UNCHANGED fmt

\* The try body runs to its end: the row validates and is appended.
AppendValid ==
    /\ InLoop
    /\ row.fault = "none"
    /\ Errors(row.cells) = <<>>
    /\ record_dict' = Bound(row.cells)
    /\ valid_records' = Append(valid_records, record_dict'.d)
    /\ pos' = pos + 1
    /\ outcome' = Append(outcome, "valid_records")
    /\ UNCHANGED <<impl, cols, index, df, pc, exc, error_report_list>>
    /\ UNCHANGED fmt

\* ReportValidationError putting the entry in front (insert(0, ...)).
ReportValidationError_prepends ==
    /\ InLoop
    /\ row.fault = "none"
    /\ Errors(row.cells) /= <<>>
    /\ index /= "text"
    /\ record_dict' = Bound(row.cells)
    /\ error_report_list' =
           <<ValidationEntry(impl, index, pos, record_dict'.d)>> \o error_report_list
    /\ pos' = pos + 1
    /\ outcome' = Append(outcome, "error_report_list")
    /\ UNCHANGED <<impl, cols, index, df, pc, exc, valid_records>>
    /\ UNCHANGED fmt

\* except ValidationError: one entry for the row.
ReportValidationError ==
    /\ InLoop
    /\ row.fault = "none"
    /\ Errors(row.cells) /= <<>>
    /\ index /= "text"
    /\ record_dict' = Bound(row.cells)
    /\ error_report_list' =
           Append(error_report_list, ValidationEntry(impl, index, pos, record_dict'.d))
    /\ pos' = pos + 1
    /\ outcome' = Append(outcome, "error_report_list")
    /\ UNCHANGED <<impl, cols, index, df, pc, exc, valid_records>>
    /\ UNCHANGED fmt

\* The mapping the except Exception handler reads the label from:
\* validate_app.py reads the row itself, app.py reads record_dict.
FaultLabelSource ==
    IF impl = "validate_app" THEN Bound(row.cells) ELSE AfterToDict

\* except Exception: one synthetic entry for the row.
ReportFault ==
    /\ InLoop
    /\ row.fault /= "none"
    /\ index /= "text"
    /\ FaultLabelSource.bound
    /\ record_dict' = AfterToDict
    /\ error_report_list' =
           Append(error_report_list, FaultEntry(index, pos, FaultLabelSource.d))
    /\ pos' = pos + 1
    /\ outcome' = Append(outcome, "error_report_list")
    /\ UNCHANGED <<impl, cols, index, df, pc, exc, valid_records>>
    /\ UNCHANGED fmt

\* A handler raises in its turn and the exception leaves validate_data:
\* index + 2 on a label that is not a number (TypeError), or app.py reading
\* record_dict before its first assignment (UnboundLocalError).
HandlerRaises ==
    /\ InLoop
    /\ \/ row.fault = "none" /\ Errors(row.cells) /= <<>> /\ index = "text"
          /\ exc' = "TypeError"
       \/ row.fault /= "none" /\ index = "text"
          /\ exc' = "TypeError"
       \/ row.fault /= "none" /\ index /= "text" /\ ~FaultLabelSource.bound
          /\ exc' = "UnboundLocalError"
    /\ record_dict' = AfterToDict
    /\ pc' = "raised"
    /\ UNCHANGED <<impl, cols, index, df, pos, valid_records, error_report_list, outcome>>
    /\ UNCHANGED fmt

\* The loop is over: return valid_records, error_report_list.
Return ==
    /\ pc = "loop"
    /\ pos = Len(df)
    /\ pc' = "returned"
    /\ UNCHANGED <<impl, cols, index, df, pos, exc, record_dict, valid_records,
                   error_report_list, outcome>>
    /\ UNCHANGED fmt

Next == AppendValid \/ ReportValidationError \/ ReportFault \/ HandlerRaises \/ Return

Spec == Init /\ [][Next]_vars

(***************************************************************************)
(* A call of format_pydantic_error on its own, on any violation: a field   *)
(* name (or no "loc"), and one of the diagnostics pydantic 1.x gives, the  *)
(* text of a custom validator, or no "msg".                                *)
(***************************************************************************)
Diagnostics ==
    { <<MsgMissing, "value_error.missing">>,
      <<MsgInteger, "type_error.integer">>,
      <<MsgFloat, "type_error.float">>,
      <<MsgNotGe, "value_error.number.not_ge">>,
      <<"none is not an allowed value", "type_error.none.not_allowed">>,
      <<"str type expected", "type_error.str">>,
      <<"Data Inválida", "value_error">>,
      <<Absent, Absent>> }

ErrorDetails ==
    {ErrorDetail(f, dg[1], dg[2]) : f \in FieldNames \cup {Absent}, dg \in Diagnostics}

InitFormat ==
    /\ impl \in Impls
    /\ error_detail \in ErrorDetails
    /\ sentence = NoSentence
    /\ pc = "format"
    /\ cols = {}
    /\ index = "range"
    /\ df = <<>>
    /\ pos = 0
    /\ exc = ""
    /\ record_dict = Unbound
    /\ valid_records = <<>>
    /\ error_report_list = <<>>
    /\ outcome = <<>>

\* format_pydantic_error(error_detail) runs and returns.
Format ==
    /\ pc = "format"
    /\ sentence' = format_pydantic_error(impl, error_detail)
    /\ pc' = "formatted"
    /\ UNCHANGED <<impl, cols, index, df, pos, exc, record_dict, valid_records,
                   error_report_list, outcome, error_detail>>

NextFormat == Format

SpecFormat == InitFormat /\ [][NextFormat]_vars

(***************************************************************************)
(* Properties.                                                             *)
(***************************************************************************)
\* The rows (1-based) among the first n that went to the collection c, in
\* input order.
RECURSIVE RowsTo(_, _)
RowsTo(c, n) ==
    IF n = 0 THEN <<>>
    ELSE IF outcome[n] = c THEN Append(RowsTo(c, n - 1), n)
    ELSE RowsTo(c, n - 1)

ValidRows == RowsTo("valid_records", Len(outcome))
ErrorRows == RowsTo("error_report_list", Len(outcome))

IsPrefix(a, b) == Len(a) <= Len(b) /\ \A k \in 1..Len(a) : b[k] = a[k]

\* C1: every row the loop has gone through gave exactly one element, to
\* exactly one of the two collections; on return the two lengths add up to
\* the number of rows of the table.
C1_OneOutcomePerRow ==
    /\ Len(outcome) = pos
    /\ Len(valid_records) = Len(ValidRows)
    /\ Len(error_report_list) = Len(ErrorRows)
    /\ Len(valid_records) + Len(error_report_list) = pos
    /\ pc = "returned" => Len(valid_records) + Len(error_report_list) = Len(df)

C1_Witness ==
    /\ pc = "returned"
    /\ Len(df) = 2
    /\ Len(valid_records) = 1
    /\ Len(error_report_list) = 1

\* C2: no exception leaves validate_data: whatever the rows do, the call
\* ends by returning the two collections.
C2_NoFaultEscapes == pc /= "raised"

\* C3: rows of the same collection keep their input order (the entries of
\* the report follow the index of the table), and a step only ever appends
\* at the end: nothing appended is moved or removed.
C3_ErrorLinesAscend ==
    \A j, k \in 1..Len(error_report_list) :
        j < k => error_report_list[j].Linha_CSV < error_report_list[k].Linha_CSV

C3_AppendOnly ==
    /\ IsPrefix(valid_records, valid_records')
    /\ IsPrefix(error_report_list, error_report_list')
    /\ Len(valid_records') + Len(error_report_list')
         <= Len(valid_records) + Len(error_report_list) + 1

C3_RowOrderPreserved == []C3_ErrorLinesAscend /\ [][C3_AppendOnly]_vars

C3_Witness ==
    /\ Len(error_report_list) = 2
    /\ error_report_list[1] /= error_report_list[2]

\* The cells of the row that gave the k-th valid record, the k-th entry.
ValidCells(k) == df[ValidRows[k]].cells
ErrorRow(k) == df[ErrorRows[k]]

\* The Validated Record of a row mapping as the specification describes it:
\* the declared fields that are present, with their coerced values.
DescribedRecord(d) ==
    [name \in FieldNames \cap DOMAIN d |-> ValidatedRecord(d)[name]]

\* C4 (as stated): each valid record holds only declared fields, with the
\* coerced values of the row.
C4_ValidatedRecordAppended ==
    \A k \in 1..Len(valid_records) : valid_records[k] = DescribedRecord(ValidCells(k))

\* C4 (amended): each valid record is the row mapping itself: every column
\* of the table, extra columns included, each with the cell as read.
C4_RawRowAppended ==
    \A k \in 1..Len(valid_records) :
        /\ DOMAIN valid_records[k] = cols
        /\ \A c \in cols : valid_records[k][c] = ValidCells(k)[c]

C4_Witness ==
    \E k \in 1..Len(valid_records) :
        /\ ExtraColumn \in DOMAIN valid_records[k]
        /\ valid_records[k]["Organizador"] = Str("12")
        /\ ValidatedRecord(ValidCells(k))["Organizador"] = Int_(12)

\* C5 (as stated): the entry of the row at zero-based position i carries
\* the line number i + 2, whatever the index of the table.
C5_LineIsPositionPlusTwo ==
    \A k \in 1..Len(error_report_list) :
        error_report_list[k].Linha_CSV = (ErrorRows[k] - 1) + 2

\* C5 (amended): the entry carries the index label of the row plus 2; that
\* is i + 2 under the default index 0..n-1, Shift + i + 2 under an index
\* that starts at Shift.
C5_LineIsLabelPlusTwo ==
    \A k \in 1..Len(error_report_list) :
        LET i == ErrorRows[k] - 1
        IN /\ index = "range" => error_report_list[k].Linha_CSV = i + 2
           /\ index = "shifted" => error_report_list[k].Linha_CSV = Shift + i + 2
           /\ index /= "text"

C5_Witness ==
    \E k \in 1..Len(error_report_list) :
        /\ index = "shifted"
        /\ ErrorRow(k).fault /= "none"
        /\ error_report_list[k].Linha_CSV = Shift + ErrorRows[k] + 1

\* The declared fields of a row mapping that fail, and the number of
\* violations of the row, field by field.
FailingFields(d) ==
    {i \in 1..NumFields : ValidateField(AdPerformanceRecord[i], d).errs /= <<>>}

RECURSIVE CountFrom(_, _)
CountFrom(i, d) ==
    IF i > NumFields THEN 0
    ELSE Len(ValidateField(AdPerformanceRecord[i], d).errs) + CountFrom(i + 1, d)

\* The first violation of the earliest-declared failing field.
FirstViolation(d) ==
    LET i0 == CHOOSE i \in FailingFields(d) : \A j \in FailingFields(d) : i <= j
    IN ValidateField(AdPerformanceRecord[i0], d).errs[1]

\* C6: the entry of a row that fails validation holds the formatted first
\* violation in declaration order, the number of all violations of the row
\* (at least 1), and as label the row's AdSet_name, "N/A" without one.
C6_EntryOfFailingRow ==
    \A k \in 1..Len(error_report_list) :
        LET d == ErrorRow(k).cells
            e == error_report_list[k]
        IN ErrorRow(k).fault = "none" =>
             /\ FailingFields(d) /= {}
             /\ e.Primeiro_Erro_Detectado = format_pydantic_error(impl, FirstViolation(d))
             /\ e.Total_Erros_Nesta_Linha = CountFrom(1, d)
             /\ e.Total_Erros_Nesta_Linha >= 1
             /\ e.AdSet_Nome_Aprox =
                    (IF "AdSet_name" \in cols THEN d["AdSet_name"] ELSE Str("N/A"))

C6_Witness ==
    \E k \in 1..Len(error_report_list) :
        /\ ErrorRow(k).fault = "none"
        /\ error_report_list[k].AdSet_Nome_Aprox = Str("N/A")
        /\ error_report_list[k].Total_Erros_Nesta_Linha = 2
        /\ error_report_list[k].Primeiro_Erro_Detectado.field = "Organizador"

\* The rows the loop has gone through that were read without a fault.
ReadRows == {i \in 1..Len(outcome) : df[i].fault = "none"}

\* The entry of row i, a row that went to the report.
EntryOf(i) == error_report_list[CHOOSE k \in 1..Len(ErrorRows) : ErrorRows[k] = i]

\* Missing or empty, as sourced from a table: no such column, or an empty cell.
MissingOrEmpty(name, d) == name \notin DOMAIN d \/ d[name] = NaN

HasViolation(d, name, types) ==
    LET errs == Errors(d)
    IN \E j \in 1..Len(errs) : errs[j].loc = name /\ errs[j].type \in types

\* C7: a row with a required field missing or empty is rejected with a
\* violation of category missing for that field; when that field is the
\* earliest failing one, the entry shows the "missing or empty" sentence
\* for it.
C7_MissingOrEmptyRejected ==
    \A i \in ReadRows : \A f \in 1..NumFields :
        LET d == df[i].cells
            fd == AdPerformanceRecord[f]
        IN (fd.required /\ MissingOrEmpty(fd.name, d)) =>
             /\ outcome[i] = "error_report_list"
             /\ HasViolation(d, fd.name, {"value_error.missing"})
             /\ FirstViolation(d).loc = fd.name =>
                    EntryOf(i).Primeiro_Erro_Detectado = MissingSentence(fd.name)

\* The value of a present field converts to the declared type.
Coercible(fd, v) ==
    CASE fd.type = "int" -> int_validator(v).ok
      [] fd.type = "str" -> str_validator(v).ok
      [] fd.type = "float_ge" -> float_validator(v).ok
      [] fd.type = "int_or_float" -> int_validator(v).ok \/ float_validator(v).ok

\* The number a cell stands for is below zero, is zero.
Negative(v) == float_validator(v).ok /\ float_validator(v).v.t = "float" /\ float_validator(v).v.n < 0
Zero(v) == float_validator(v).ok /\ float_validator(v).v.t = "float" /\ float_validator(v).v.n = 0

\* Every required field present and coercible, Amount_spent not negative,
\* every optional field missing or coercible.
FullyConforming(d) ==
    /\ \A f \in 1..NumFields :
         LET fd == AdPerformanceRecord[f]
         IN IF fd.required
            THEN ~MissingOrEmpty(fd.name, d) /\ Coercible(fd, d[fd.name])
            ELSE MissingOrEmpty(fd.name, d) \/ Coercible(fd, d[fd.name])
    /\ ~Negative(d["Amount_spent"])

\* C8: a row that was read lands in valid_records exactly when it has no
\* violation; every fully conforming row is accepted.
C8_ValidIffNoViolation ==
    \A i \in ReadRows :
        LET d == df[i].cells
        IN /\ outcome[i] = "valid_records" <=> CountFrom(1, d) = 0
           /\ outcome[i] = "error_report_list" <=> CountFrom(1, d) >= 1
           /\ FullyConforming(d) => outcome[i] = "valid_records"

C8_Witness ==
    /\ \E i \in ReadRows :
         /\ outcome[i] = "valid_records"
         /\ "Link_clicks" \notin DOMAIN df[i].cells
         /\ FullyConforming(df[i].cells)
    /\ \E i \in ReadRows : outcome[i] = "error_report_list"

\* Every required field but Amount_spent is valid; every field but
\* Amount_spent is valid.
OtherFieldsValid(d, requiredOnly) ==
    \A f \in 1..NumFields :
        LET fd == AdPerformanceRecord[f]
        IN (fd.name /= "Amount_spent" /\ (fd.required \/ ~requiredOnly)) =>
               ValidateField(fd, d).errs = <<>>

\* C9: a negative Amount_spent, the other required fields valid, is
\* rejected with the not-greater-or-equal violation on Amount_spent; the
\* entry shows it through the generic sentence, under the row's AdSet_name.
\* An Amount_spent of 0 is accepted.
C9_NegativeAmountRejected ==
    \A i \in ReadRows :
        LET d == df[i].cells
        IN /\ (Negative(d["Amount_spent"]) /\ OtherFieldsValid(d, TRUE)) =>
                /\ outcome[i] = "error_report_list"
                /\ HasViolation(d, "Amount_spent", {"value_error.number.not_ge"})
                /\ EntryOf(i).Primeiro_Erro_Detectado =
                       Sentence("Campo '", "Amount_spent", "': ",
                                "Ensure this value is greater than or equal to 0.0", ".")
                /\ EntryOf(i).AdSet_Nome_Aprox = d["AdSet_name"]
           /\ (Zero(d["Amount_spent"]) /\ OtherFieldsValid(d, FALSE)) =>
                outcome[i] = "valid_records"

C9_Witness ==
    /\ \E i \in ReadRows :
         /\ df[i].cells["Amount_spent"] = Int_(-5)
         /\ outcome[i] = "error_report_list"
         /\ EntryOf(i).Primeiro_Erro_Detectado.field = "Amount_spent"
    /\ \E i \in ReadRows :
         /\ df[i].cells["Amount_spent"] = Int_(0)
         /\ outcome[i] = "valid_records"

\* The optional numeric fields.
OptionalNumeric == {f \in 1..NumFields : AdPerformanceRecord[f].type = "int_or_float"}

Without(d, name) == [c \in DOMAIN d \ {name} |-> d[c]]

\* C10: an optional numeric field that is present and converts neither to
\* an integer nor to a float makes the row rejected, with a wrong-type
\* violation for the field; when nothing else fails, the same row without
\* the field validates.
C10_OptionalWrongTypeRejected ==
    \A i \in ReadRows : \A f \in OptionalNumeric :
        LET d == df[i].cells
            fd == AdPerformanceRecord[f]
        IN (fd.name \in DOMAIN d /\ ~Coercible(fd, d[fd.name])) =>
             /\ outcome[i] = "error_report_list"
             /\ HasViolation(d, fd.name, {"type_error.integer", "type_error.float"})
             /\ FailingFields(d) = {f} => Errors(Without(d, fd.name)) = <<>>

C10_Witness ==
    \E i \in ReadRows :
        /\ "Link_clicks" \in cols
        /\ df[i].cells["Link_clicks"] = Str("abc")
        /\ outcome[i] = "error_report_list"
        /\ EntryOf(i).Primeiro_Erro_Detectado.field = "Link_clicks"
        /\ Errors(Without(df[i].cells, "Link_clicks")) = <<>>

\* The field name and the diagnostic a violation carries.
NameOf(detail) == IF detail.loc = Absent THEN "Campo Desconhecido" ELSE detail.loc
TextOf(detail) == IF detail.msg = Absent THEN "Erro de validação genérico." ELSE detail.msg

\* The sentence of a violation by category, with floatMid as the wording
\* of the float sentence.
SentenceByCategory(detail, floatMid) ==
    CASE detail.type = "value_error.missing" ->
           Sentence("O campo '", NameOf(detail), "' está faltando ou vazio.", "", "")
      [] detail.type = "type_error.float" ->
           Sentence("O campo '", NameOf(detail), floatMid, "", "")
      [] detail.type = "type_error.integer" ->
           Sentence("O campo '", NameOf(detail), "' deve ser um número inteiro (ex: 100).", "", "")
      [] OTHER ->
           Sentence("Campo '", NameOf(detail), "': ", Capitalize(TextOf(detail)), ".")

\* C11 (as stated): the call always returns, one sentence: the "missing or
\* empty" sentence for missing, the "decimal number" sentence for a float
\* wrong-type, the "whole number" sentence for an integer wrong-type, the
\* generic sentence with the capitalized diagnostic for everything else.
C11_TotalByCategory ==
    /\ pc = "format" => ENABLED Format
    /\ pc = "formatted" =>
         sentence = SentenceByCategory(error_detail, "' deve ser um número decimal (ex: 100.50).")

\* C11 (amended): the same, the float sentence being the one of the copy:
\* "decimal number" in validate_app.py, plain "number" in app.py.
C11_TotalByCategoryPerCopy ==
    /\ pc = "format" => ENABLED Format
    /\ pc = "formatted" =>
         sentence = SentenceByCategory(error_detail,
                        IF impl = "validate_app"
                        THEN "' deve ser um número decimal (ex: 100.50)."
                        ELSE "' deve ser um número (ex: 100.50).")

C11_Witness ==
    /\ pc = "formatted"
    /\ error_detail.type = "value_error"
    /\ error_detail.loc = Absent
    /\ sentence = Sentence("Campo '", "Campo Desconhecido", "': ", "Data inválida", ".")

\* record_dict once the loop has gone through the first i rows: the mapping
\* of the last row whose row.to_dict() returned.
RECURSIVE record_dict_after(_)
record_dict_after(i) ==
    IF i = 0 THEN Unbound
    ELSE IF df[i].fault = "to_dict" THEN record_dict_after(i - 1)
    ELSE Bound(df[i].cells)

\* The entry row i (1-based) gives by its own content and position alone.
OwnEntry(i) ==
    IF df[i].fault = "none" THEN ValidationEntry(impl, index, i - 1, df[i].cells)
    ELSE FaultEntry(index, i - 1, df[i].cells)

\* C12: what a row gives depends on that row and its position only: a valid
\* record is the row's own mapping, an entry is the one the row gives by
\* itself; the synthetic entry of a faulted row (count 1, the general
\* message) carries that row's AdSet_name, or "N/A", never the label of an
\* earlier row.
C12_OutcomeFromOwnRow ==
    /\ \A k \in 1..Len(valid_records) : valid_records[k] = ValidCells(k)
    /\ \A k \in 1..Len(error_report_list) :
         /\ error_report_list[k] = OwnEntry(ErrorRows[k])
         /\ ErrorRow(k).fault /= "none" =>
              /\ error_report_list[k].Total_Erros_Nesta_Linha = 1
              /\ error_report_list[k].AdSet_Nome_Aprox = AdSet_Nome_Aprox(ErrorRow(k).cells)

\* The copy that is not running, and the mapping its except Exception
\* handler would read the label of row i from.
OtherCopy == IF impl = "app" THEN "validate_app" ELSE "app"

LabelSourceOf(m, i) ==
    IF m = "validate_app" THEN Bound(df[i].cells) ELSE record_dict_after(i)

\* C13: the two copies are observationally equivalent: every entry of the
\* copy that runs is the entry the other copy gives for the same row (same
\* line, label, first-error sentence and count), and the running copy
\* raises only where the other one raises too.
C13_CopiesAgree ==
    /\ \A k \in 1..Len(error_report_list) :
         LET i == ErrorRows[k]
         IN IF df[i].fault = "none"
            THEN error_report_list[k] = ValidationEntry(OtherCopy, index, i - 1, df[i].cells)
            ELSE /\ LabelSourceOf(OtherCopy, i).bound
                 /\ error_report_list[k] = FaultEntry(index, i - 1, LabelSourceOf(OtherCopy, i).d)
    /\ pc = "raised" => (index = "text" \/ ~LabelSourceOf(OtherCopy, pos + 1).bound)

====
